---- MODULE Spec2Model ----
(***************************************************************************)
(* Model of scripts/add-examples-to-docs.py: the injector                  *)
(* add_sections_to_file and the batch driver main.                         *)
(*                                                                         *)
(* A Python str is modelled as a sequence of one-character strings, so     *)
(* that `in`, replace, split and strip are computed on characters.         *)
(***************************************************************************)
EXTENDS Integers, Sequences, FiniteSets

\* ------------------------------------------------------------------ bounds
\* number of entries of DOCS_CONFIG in the batch model
NumDocs == 2
\* number of times the script is invoked on the same files
MaxRuns == 2
\* number of direct calls of add_sections_to_file on one file
MaxCalls == 3
\* longest examples / tests list of a synthetic config
MaxRefs == 2
\* number of text pieces a synthetic document is made of
MaxPieces == 3

\* ------------------------------------------------- literals of the source
\* the character U+0060 of line 201, which a TLA+ string literal cannot hold
BQ == "backquote"

\* line 168: "## Code Examples"
CODE_EXAMPLES ==
    <<"#", "#", " ", "C", "o", "d", "e", " ", "E", "x", "a", "m", "p", "l", "e", "s">>

\* line 173: "## See Also"
SEE_ALSO ==
    <<"#", "#", " ", "S", "e", "e", " ", "A", "l", "s", "o">>

\* line 178: initial value of examples_section
EXAMPLES_HEAD ==
    <<"\n", "#", "#", " ", "C", "o", "d", "e", " ", "E", "x", "a", "m", "p", "l", "e", "s",
      "\n", "\n", "T", "h", "e", " ", "f", "o", "l", "l", "o", "w", "i", "n", "g", " ", "w",
      "o", "r", "k", "i", "n", "g", " ", "e", "x", "a", "m", "p", "l", "e", "s", " ", "d", "e",
      "m", "o", "n", "s", "t", "r", "a", "t", "e", " ", "t", "h", "i", "s", " ", "f", "e", "a",
      "t", "u", "r", "e", ":", "\n", "\n">>

\* line 183
EXAMPLES_TAIL ==
    <<"\n", "A", "l", "l", " ", "e", "x", "a", "m", "p", "l", "e", "s", " ", "a", "r", "e", " ",
      "f", "u", "l", "l", "y", " ", "t", "e", "s", "t", "e", "d", " ", "a", "n", "d", " ", "c",
      "a", "n", " ", "b", "e", " ", "r", "u", "n", " ", "d", "i", "r", "e", "c", "t", "l", "y",
      ".", "\n">>

\* line 185: initial value of tests_section
TESTS_HEAD ==
    <<"\n", "#", "#", " ", "R", "e", "l", "a", "t", "e", "d", " ", "T", "e", "s", "t", "s",
      "\n", "\n", "T", "h", "e", " ", "f", "u", "n", "c", "t", "i", "o", "n", "a", "l", "i",
      "t", "y", " ", "i", "s", " ", "t", "h", "o", "r", "o", "u", "g", "h", "l", "y", " ", "t",
      "e", "s", "t", "e", "d", ".", " ", "K", "e", "y", " ", "t", "e", "s", "t", " ", "f", "i",
      "l", "e", "s", ":", "\n", "\n">>

\* lines 181, 194, 199: the link prefix of the f-strings
BASE_URL ==
    <<"h", "t", "t", "p", "s", ":", "/", "/", "g", "i", "t", "h", "u", "b", ".", "c", "o", "m",
      "/", "e", "v", "e", "n", "t", "4", "u", "-", "a", "p", "p", "/", "d", "a", "t", "a", "-",
      "h", "e", "l", "p", "e", "r", "s", "/", "b", "l", "o", "b", "/", "m", "a", "i", "n", "/">>

\* line 201: text before {config['test_filter']}
RUN_HEAD ==
    <<"\n", "R", "u", "n", " ", "t", "h", "e", " ", "t", "e", "s", "t", "s", ":", "\n", "\n",
      BQ, BQ, BQ, "b", "a", "s", "h", "\n", "#", " ", "R", "u", "n", " ", "t", "e", "s", "t",
      "s", "\n", "t", "a", "s", "k", " ", "t", "e", "s", "t", ":", "u", "n", "i", "t", " ", "-",
      "-", " ", "-", "-", "f", "i", "l", "t", "e", "r", "=">>

\* line 201: text after {config['test_filter']}
RUN_TAIL ==
    <<"\n", BQ, BQ, BQ, "\n">>

\* lines 188, 189: the separator " - "
DASH ==
    <<" ", "-", " ">>

\* line 204: "\n## See Also"
NL_SEE_ALSO ==
    <<"\n", "#", "#", " ", "S", "e", "e", " ", "A", "l", "s", "o">>

\* ------------------------------------------------------- str operations
Min(S) == CHOOSE x \in S : \A y \in S : x <= y

Max(S) == CHOOSE x \in S : \A y \in S : x >= y

\* s.find(sub, k-1) + 1: the first index >= k at which sub occurs, 0 if none
Find(s, sub, k) ==
    LET hits == { j \in k..(Len(s) - Len(sub) + 1) : SubSeq(s, j, j + Len(sub) - 1) = sub }
    IN  IF hits = {} THEN 0 ELSE Min(hits)

\* sub in s
Contains(s, sub) == Find(s, sub, 1) # 0

RECURSIVE ReplaceFrom(_, _, _, _)
ReplaceFrom(s, old, new, k) ==
    LET j == Find(s, old, k)
    IN  IF j = 0
        THEN SubSeq(s, k, Len(s))
        ELSE SubSeq(s, k, j - 1) \o new \o ReplaceFrom(s, old, new, j + Len(old))

\* s.replace(old, new): no count argument, every non-overlapping occurrence,
\* scanning left to right
Replace(s, old, new) == ReplaceFrom(s, old, new, 1)

\* s.split(sep, 1) for a sep that occurs in s
SplitOnce(s, sep) ==
    LET j == Find(s, sep, 1)
    IN  << SubSeq(s, 1, j - 1), SubSeq(s, j + Len(sep), Len(s)) >>

RECURSIVE SplitFrom(_, _, _)
SplitFrom(s, sep, k) ==
    LET j == Find(s, sep, k)
    IN  IF j = 0
        THEN << SubSeq(s, k, Len(s)) >>
        ELSE << SubSeq(s, k, j - 1) >> \o SplitFrom(s, sep, j + Len(sep))

\* s.split(sep)
Split(s, sep) == SplitFrom(s, sep, 1)

IsSpace(c) == c \in {" ", "\t", "\n", "\r"}

\* s.strip()
Strip(s) ==
    LET keep == { k \in 1..Len(s) : ~IsSpace(s[k]) }
    IN  IF keep = {} THEN << >> ELSE SubSeq(s, Min(keep), Max(keep))

\* ------------------------------------------- add_sections_to_file, pure part
HasExamplesSectionNever(content) == FALSE

\* line 168: the already-has-examples test
HasExamplesSection(content) == Contains(content, CODE_EXAMPLES)

HasSeeAlsoAlways(content) == TRUE

\* line 173: the anchor test
HasSeeAlso(content) == Contains(content, SEE_ALSO)

GuardSwapped(content) ==
    IF ~HasSeeAlso(content) THEN "no_anchor"
    ELSE IF HasExamplesSection(content) THEN "already"
    ELSE "pass"

\* lines 167-175: the two early returns, in the order of the code
Guard(content) ==
    IF HasExamplesSection(content) THEN "already"
    ELSE IF ~HasSeeAlso(content) THEN "no_anchor"
    ELSE "pass"

\* line 181: one bullet of the examples section, example = (title, path, desc)
ExampleBullet(example) ==
    <<"-", " ", "[", "*", "*">> \o example[1] \o <<"*", "*", "]", "(">> \o BASE_URL
        \o example[2] \o <<")">> \o DASH \o example[3] \o <<"\n">>

RECURSIVE ExamplesLoopReversed(_, _, _)
ExamplesLoopReversed(acc, examples, k) ==
    IF k > Len(examples) THEN acc
    ELSE ExamplesLoopReversed(acc \o ExampleBullet(examples[Len(examples) + 1 - k]), examples, k + 1)

RECURSIVE ExamplesLoop(_, _, _)
\* lines 180-181: the for loop, examples_section += bullet
ExamplesLoop(acc, examples, k) ==
    IF k > Len(examples) THEN acc
    ELSE ExamplesLoop(acc \o ExampleBullet(examples[k]), examples, k + 1)

ExamplesSectionNoneIfEmpty(config) ==
    IF config.examples = << >> THEN << >>
    ELSE ExamplesLoop(EXAMPLES_HEAD, config.examples, 1) \o EXAMPLES_TAIL

\* lines 178-183
ExamplesSection(config) ==
    ExamplesLoop(EXAMPLES_HEAD, config.examples, 1) \o EXAMPLES_TAIL

TestFilenameFirst(test_path) == Split(test_path, <<"/">>)[1]

\* lines 193, 198: test_path.split("/")[-1]
TestFilename(test_path) ==
    LET parts == Split(test_path, <<"/">>) IN parts[Len(parts)]

\* lines 188-199: one bullet of the tests section
TestBullet(test) ==
    IF Contains(test, DASH)
    THEN LET halves == SplitOnce(test, DASH)
             test_path == Strip(halves[1])
             test_desc == Strip(halves[2])
         IN  <<"-", " ", "[">> \o TestFilename(test_path) \o <<"]", "(">> \o BASE_URL
                 \o test_path \o <<")">> \o DASH \o test_desc \o <<"\n">>
    ELSE LET test_path == Strip(test)
         IN  <<"-", " ", "[">> \o TestFilename(test_path) \o <<"]", "(">> \o BASE_URL
                 \o test_path \o <<")", "\n">>

RECURSIVE TestsLoop(_, _, _)
\* lines 186-199: the for loop, tests_section += bullet
TestsLoop(acc, tests, k) ==
    IF k > Len(tests) THEN acc
    ELSE TestsLoop(acc \o TestBullet(tests[k]), tests, k + 1)

\* lines 185-201
TestsSection(config) ==
    TestsLoop(TESTS_HEAD, config.tests, 1) \o RUN_HEAD \o config.test_filter \o RUN_TAIL

\* line 204
NewContent(content, config) ==
    Replace(content, SEE_ALSO, ExamplesSection(config) \o TestsSection(config) \o NL_SEE_ALSO)

\* ------------------------------------------------------- synthetic inputs
SeqsUpTo(S, n) == UNION { [1..k -> S] : k \in 0..n }

RECURSIVE Flatten(_)
Flatten(ss) == IF ss = << >> THEN << >> ELSE Head(ss) \o Flatten(Tail(ss))

\* "## See Also\n", "## Code Examples\n", "## ", "See Also\n", "# T\n":
\* a marker can also arise across two pieces
Pieces ==
    { SEE_ALSO \o <<"\n">>, CODE_EXAMPLES \o <<"\n">>, <<"#", "#", " ">>,
      <<"S", "e", "e", " ", "A", "l", "s", "o", "\n">>, <<"#", " ", "T", "\n">> }

\* document texts: every concatenation of at most MaxPieces pieces
Docs == { Flatten(ps) : ps \in SeqsUpTo(Pieces, MaxPieces) }

\* "# T\n\n## See Also\n- l\n"
DocOneAnchor == <<"#", " ", "T", "\n", "\n">> \o SEE_ALSO \o <<"\n", "-", " ", "l", "\n">>

\* "## See Also\nx\n## See Also\n"
DocTwoAnchors == SEE_ALSO \o <<"\n", "x", "\n">> \o SEE_ALSO \o <<"\n">>

\* ("A", "e/a", "x") and ("B", "e/b", "y")
ExamplePool ==
    { << <<"A">>, <<"e", "/", "a">>, <<"x">> >>, << <<"B">>, <<"e", "/", "b">>, <<"y">> >> }

\* "t/a - d", "b", "e/ - x", " u/v ", "p  -  q - r", "c/d - "
TestPool ==
    { <<"t", "/", "a", " ", "-", " ", "d">>,
      <<"b">>,
      <<"e", "/", " ", "-", " ", "x">>,
      <<" ", "u", "/", "v", " ">>,
      <<"p", " ", " ", "-", " ", " ", "q", " ", "-", " ", "r">>,
      <<"c", "/", "d", " ", "-", " ">> }

\* the shape of one value of DOCS_CONFIG (lines 12-29)
Configs ==
    [ examples : SeqsUpTo(ExamplePool, MaxRefs),
      tests : SeqsUpTo(TestPool, MaxRefs),
      test_filter : { <<"F", "o">> } ]

ConfigA ==
    [ examples |-> << << <<"A">>, <<"e", "/", "a">>, <<"x">> >> >>,
      tests |-> << <<"t", "/", "a", " ", "-", " ", "d">> >>,
      test_filter |-> <<"F", "o">> ]

ConfigB ==
    [ examples |-> << >>, tests |-> << <<"b">> >>, test_filter |-> <<"F", "o">> ]

ConfigC ==
    [ examples |-> << << <<"B">>, <<"e", "/", "b">>, <<"y">> >>, << <<"A">>, <<"e", "/", "a">>, <<"x">> >> >>,
      tests |-> << <<" ", "u", "/", "v", " ">>, <<"e", "/", " ", "-", " ", "x">> >>,
      test_filter |-> <<"F", "o">> ]

\* a file of the file system: open(path, 'r') succeeds iff readable,
\* open(path, 'w') succeeds iff writable
File(content, readable, writable) ==
    [ content |-> content, readable |-> readable, writable |-> writable ]

\* the (file, config) pairs the direct calls start from
InjectInputs ==
    { [ file |-> File(d, TRUE, TRUE), config |-> c ] : d \in Docs, c \in {ConfigA, ConfigB} }
    \cup { [ file |-> File(DocOneAnchor, TRUE, TRUE), config |-> c ] : c \in Configs }
    \cup { [ file |-> File(DocTwoAnchors, TRUE, TRUE), config |-> ConfigC ] }
    \cup { [ file |-> File(d, r, FALSE), config |-> ConfigA ] :
             d \in {DocOneAnchor, CODE_EXAMPLES, << >>}, r \in BOOLEAN }

\* the (file, config) pairs a batch table is made of
BatchInputs ==
    { [ file |-> File(DocOneAnchor, TRUE, TRUE), config |-> ConfigA ],
      [ file |-> File(DocTwoAnchors, TRUE, TRUE), config |-> ConfigB ],
      [ file |-> File(CODE_EXAMPLES \o <<"\n">> \o SEE_ALSO, TRUE, TRUE), config |-> ConfigA ],
      [ file |-> File(<<"#", " ", "T", "\n">>, TRUE, TRUE), config |-> ConfigA ],
      [ file |-> File(<< >>, FALSE, FALSE), config |-> ConfigA ],
      [ file |-> File(DocOneAnchor, TRUE, FALSE), config |-> ConfigB ] }

\* ------------------------------------------------------------------ state
VARIABLES
    files,          \* path -> file; a path is its position in DOCS_CONFIG
    docs_config,    \* DOCS_CONFIG: the configs in insertion order
    pc,             \* "idle", "loop", "done", "raised" (main); "harness" (direct calls)
    run,            \* number of invocations of the script so far
    i,              \* position of main's for loop in DOCS_CONFIG.items()
    updated_count,  \* main's local
    out,            \* lines printed to stdout by the current invocation
    results,        \* the calls of add_sections_to_file of the current invocation
    last,           \* the most recent call: what it read, printed, did and returned
    write_opens     \* path -> number of open(path, 'w') calls so far

vars == << files, docs_config, pc, run, i, updated_count, out, results, last, write_opens >>

NoCall == [ path |-> 0, content |-> << >>, ret |-> "none", msg |-> "", opened_w |-> FALSE ]

\* number of occurrences of sub in s
Count(s, sub) ==
    Cardinality({ j \in 1..(Len(s) - Len(sub) + 1) : SubSeq(s, j, j + Len(sub) - 1) = sub })

\* what a call leaves in results: the outcome and the number of
\* "## Code Examples" headers of the file after it
Outcome(path, ret, content) ==
    [ path |-> path, ret |-> ret, sections |-> Count(content, CODE_EXAMPLES) ]

\* lines 160-211: one call add_sections_to_file(file_path, config).
\* ret is "True", "False", or the exception that leaves the function.
add_sections_to_file(file_path, config) ==
    LET f == files[file_path]
        content == f.content
        guard == Guard(content)
        done(ret, msg, new, opened) ==
            /\ files' = [files EXCEPT ![file_path].content = new]
            /\ last' = [ path |-> file_path, content |-> content, ret |-> ret,
                         msg |-> msg, opened_w |-> opened ]
            /\ out' = IF msg = "" THEN out ELSE Append(out, [ msg |-> msg, path |-> file_path ])
            /\ results' = Append(results, Outcome(file_path, ret, new))
            /\ write_opens' = [write_opens EXCEPT ![file_path] = @ + (IF opened THEN 1 ELSE 0)]
    IN  IF ~f.readable
        THEN \* line 164: open(file_path, 'r') raises
             done("IOError_read", "", content, FALSE)
        ELSE IF guard = "already"
        THEN \* lines 168-170
             done("False", "Skipping", content, FALSE)
        ELSE IF guard = "no_anchor"
        THEN \* lines 173-175
             done("False", "No See Also", content, FALSE)
        ELSE IF ~f.writable
        THEN \* line 207: open(file_path, 'w') raises, the file is not truncated
             done("IOError_write", "", content, TRUE)
        ELSE \* lines 204-211
             done("True", "Updated", NewContent(content, config), TRUE)

\* ---------------------------------------------------------- direct calls
InitInject ==
    /\ \E x \in InjectInputs :
          /\ files = << x.file >>
          /\ docs_config = << x.config >>
    /\ pc = "harness"
    /\ run = 0
    /\ i = 0
    /\ updated_count = 0
    /\ out = << >>
    /\ results = << >>
    /\ last = NoCall
    /\ write_opens = << 0 >>

\* add_sections_to_file called again on the same file with the same config
Inject ==
    /\ pc = "harness"
    /\ Len(results) < MaxCalls
    /\ add_sections_to_file(1, docs_config[1])
    /\ UNCHANGED << docs_config, pc, run, i, updated_count >>

NextInject == Inject

SpecInject == InitInject /\ [][NextInject]_vars

\* ------------------------------------------------------------------ main
Init ==
    /\ \E table \in [1..NumDocs -> BatchInputs] :
          /\ files = [ p \in 1..NumDocs |-> table[p].file ]
          /\ docs_config = [ p \in 1..NumDocs |-> table[p].config ]
    /\ pc = "idle"
    /\ run = 0
    /\ i = 0
    /\ updated_count = 0
    /\ out = << >>
    /\ results = << >>
    /\ last = NoCall
    /\ write_opens = [ p \in 1..NumDocs |-> 0 ]

\* lines 225-226 and 215-217: the script is invoked, main prints the banner
MainStart ==
    /\ pc \in {"idle", "done", "raised"}
    /\ run < MaxRuns
    /\ run' = run + 1
    /\ out' = << [ msg |-> "Adding", path |-> 0 ] >>
    /\ results' = << >>
    /\ updated_count' = 0
    /\ i' = 1
    /\ pc' = "loop"
    /\ UNCHANGED << files, docs_config, last, write_opens >>

\* lines 218-220: one iteration of the for loop; an exception of the call is
\* not handled anywhere and ends the process
MainLoop ==
    /\ pc = "loop"
    /\ i <= Len(docs_config)
    /\ add_sections_to_file(i, docs_config[i])
    /\ updated_count' = IF last'.ret = "True" THEN updated_count + 1 ELSE updated_count
    /\ IF last'.ret \in {"IOError_read", "IOError_write"}
       THEN pc' = "raised" /\ i' = i
       ELSE pc' = "loop" /\ i' = i + 1
    /\ UNCHANGED << docs_config, run >>

\* line 222: the loop is exhausted, main prints the summary
MainSummary ==
    /\ pc = "loop"
    /\ i > Len(docs_config)
    /\ out' = Append(out, [ msg |-> "Summary", path |-> 0, count |-> updated_count ])
    /\ pc' = "done"
    /\ UNCHANGED << files, docs_config, run, i, updated_count, results, last, write_opens >>

Next == MainStart \/ MainLoop \/ MainSummary

Spec == Init /\ [][Next]_vars

\* ---------------------------------------------------- vocabulary of the claims
\* sub occurs in s at index j, character by character
OccursAt(s, sub, j) ==
    /\ j >= 1
    /\ j + Len(sub) - 1 <= Len(s)
    /\ \A m \in 1..Len(sub) : s[j + m - 1] = sub[m]

Occurrences(s, sub) == { j \in 1..Len(s) : OccursAt(s, sub, j) }

Occurs(s, sub) == Occurrences(s, sub) # {}

\* the most recent call read its file
CallRead == last.ret \in {"True", "False", "IOError_write"}

\* the text the most recent call read, the text of its file now, its config
Before == last.content

After == files[last.path].content

Config == docs_config[last.path]

\* the text the most recent call read passes both guards
PassesGuards == Occurs(Before, SEE_ALSO) /\ ~Occurs(Before, CODE_EXAMPLES)

\* the characters one replaced anchor adds to the text
Grown == (Len(After) - Len(Before)) \div Cardinality(Occurrences(Before, SEE_ALSO))

\* where, in the updated text, the text put in place of the anchor at index j
\* of the text read begins
BlockStart(j) == j + Grown * Cardinality({ q \in Occurrences(Before, SEE_ALSO) : q < j })

RECURSIVE SumLen(_, _)
\* the total length of the first n texts of a sequence of texts
SumLen(texts, n) == IF n = 0 THEN 0 ELSE SumLen(texts, n - 1) + Len(texts[n])

\* the final path segment, read off the position of the last "/"
LastSegment(path) ==
    LET slashes == { k \in 1..Len(path) : path[k] = "/" }
        from == IF slashes = {} THEN 1 ELSE Max(slashes) + 1
    IN  SubSeq(path, from, Len(path))

\* the bullet the specification describes for a test entry: the description
\* is present iff the entry holds " - "; path and description are the
\* stripped texts on both sides of its first " - "
ExpectedTestBullet(test) ==
    LET seps == Occurrences(test, DASH)
        present == seps # {}
        path == IF present THEN Strip(SubSeq(test, 1, Min(seps) - 1)) ELSE Strip(test)
        desc == IF present THEN Strip(SubSeq(test, Min(seps) + Len(DASH), Len(test))) ELSE << >>
        link == <<"-", " ", "[">> \o LastSegment(path) \o <<"]", "(">> \o BASE_URL \o path \o <<")">>
    IN  IF present THEN link \o DASH \o desc \o <<"\n">> ELSE link \o <<"\n">>

\* ------------------------------------------------------------------ claims

\* C1: once add_sections_to_file has returned for a file, the next call on
\* the same file returns False, does not open the file for writing and leaves
\* it byte-identical; after any number of calls the file holds as many
\* "## Code Examples" headers as after the first call.
C1_Idempotent ==
    (Len(results) >= 2 /\ results[Len(results) - 1].ret \in {"True", "False"})
        => /\ last.ret = "False"
           /\ ~last.opened_w
           /\ After = Before
           /\ results[Len(results)].sections = results[1].sections

C1_Witness ==
    /\ Len(results) >= 2
    /\ results[1].ret = "True"
    /\ results[1].sections = 2
    /\ last.ret = "False"

\* C2: an update replaces only the first "## See Also": the updated text is
\* the text before the first anchor, the generated sections, the anchor, and
\* the text after the first anchor unchanged.
C2_FirstAnchorOnly ==
    last.ret = "True"
        => LET j == Min(Occurrences(Before, SEE_ALSO))
           IN  After = SubSeq(Before, 1, j - 1)
                       \o ExamplesSection(Config) \o TestsSection(Config) \o <<"\n">>
                       \o SEE_ALSO
                       \o SubSeq(Before, j + Len(SEE_ALSO), Len(Before))

\* C3: when the call for one document fails with an I/O error, main goes on:
\* it is still in its loop or has finished normally, it has not been aborted.
C3_ErrorIsolated ==
    (\E k \in 1..Len(results) : results[k].ret \in {"IOError_read", "IOError_write"})
        => pc \in {"loop", "done"}

\* C4: a batch run that has ended has printed the summary line as its last
\* line, whatever the outcomes of its documents.
C4_SummaryReported ==
    (run >= 1 /\ pc \notin {"loop"})
        => out[Len(out)].msg = "Summary"

\* C5: a call that reads a text without "## See Also" and without
\* "## Code Examples" returns False with the no-anchor message, leaves the
\* file byte-identical and does not open it for writing.
C5_MissingAnchorSkip ==
    (CallRead /\ ~Occurs(Before, SEE_ALSO) /\ ~Occurs(Before, CODE_EXAMPLES))
        => /\ last.ret = "False"
           /\ last.msg = "No See Also"
           /\ After = Before
           /\ ~last.opened_w
           /\ write_opens[last.path] = 0

C5_Witness ==
    /\ CallRead
    /\ ~Occurs(Before, SEE_ALSO)
    /\ ~Occurs(Before, CODE_EXAMPLES)
    /\ Occurs(Before, <<"S", "e", "e", " ", "A", "l", "s", "o">>)
    /\ last.ret = "False"

\* C6: a call that reads a text with "## Code Examples" anywhere, with or
\* without "## See Also", returns False with the already-present message and
\* leaves the file byte-identical, unopened for writing.
C6_AlreadyPresentSkip ==
    (CallRead /\ Occurs(Before, CODE_EXAMPLES))
        => /\ last.ret = "False"
           /\ last.msg = "Skipping"
           /\ After = Before
           /\ ~last.opened_w

C6_Witness ==
    /\ CallRead
    /\ Occurs(Before, CODE_EXAMPLES)
    /\ ~Occurs(Before, SEE_ALSO)
    /\ last.ret = "False"
    /\ results[1].ret = "False"

\* C7: in an updated text every generated block is the examples header, the
\* bullet of the 1st, 2nd, ... ExampleRef back to back, the examples closing,
\* the tests header, the bullet of the 1st, 2nd, ... TestRef back to back,
\* and the run snippet: one bullet per reference, in the order of the config,
\* examples before tests.
C7_OrderPreserved ==
    last.ret = "True"
        => \A j \in Occurrences(Before, SEE_ALSO) :
              LET ex == [ n \in 1..Len(Config.examples) |-> ExampleBullet(Config.examples[n]) ]
                  ts == [ n \in 1..Len(Config.tests) |-> TestBullet(Config.tests[n]) ]
                  ex0 == BlockStart(j) + Len(EXAMPLES_HEAD)
                  exEnd == ex0 + SumLen(ex, Len(ex))
                  ts0 == exEnd + Len(EXAMPLES_TAIL) + Len(TESTS_HEAD)
                  tsEnd == ts0 + SumLen(ts, Len(ts))
              IN  /\ OccursAt(After, EXAMPLES_HEAD, BlockStart(j))
                  /\ \A n \in 1..Len(ex) : OccursAt(After, ex[n], ex0 + SumLen(ex, n - 1))
                  /\ OccursAt(After, EXAMPLES_TAIL \o TESTS_HEAD, exEnd)
                  /\ \A n \in 1..Len(ts) : OccursAt(After, ts[n], ts0 + SumLen(ts, n - 1))
                  /\ OccursAt(After, RUN_HEAD, tsEnd)

C7_Witness ==
    /\ last.ret = "True"
    /\ Len(Config.examples) = 2
    /\ Config.examples[1] # Config.examples[2]
    /\ Len(Config.tests) = 2
    /\ Config.tests[1] # Config.tests[2]
    /\ Cardinality(Occurrences(Before, SEE_ALSO)) = 2

\* C8: in an updated text the bullet of every TestRef is "- [label](url)"
\* with the label the final "/"-segment of the relative path and the url the
\* base URL followed by the whole relative path, then " - " and the
\* description when the entry has one, and nothing but the line end when it
\* has none.
C8_TestBullet ==
    last.ret = "True"
        => LET want == [ n \in 1..Len(Config.tests) |-> ExpectedTestBullet(Config.tests[n]) ]
               ts0 == BlockStart(Min(Occurrences(Before, SEE_ALSO)))
                          + Len(ExamplesSection(Config)) + Len(TESTS_HEAD)
           IN  /\ \A n \in 1..Len(want) : OccursAt(After, want[n], ts0 + SumLen(want, n - 1))
               /\ OccursAt(After, RUN_HEAD, ts0 + SumLen(want, Len(want)))

C8_Witness ==
    /\ last.ret = "True"
    /\ Len(Config.tests) = 2
    /\ Occurs(Config.tests[1], <<"/">>) /\ Occurs(Config.tests[1], DASH)
    /\ ~Occurs(Config.tests[2], DASH)

\* C9: a call on a writable file whose text passes both guards returns True
\* also when a list of the config is empty: with no examples every generated
\* block begins with the examples header directly followed by the closing
\* sentence and the tests header; with no tests it ends with the tests header
\* directly followed by the run snippet.
C9_EmptyLists ==
    (CallRead /\ PassesGuards /\ files[last.path].writable
              /\ (Config.examples = << >> \/ Config.tests = << >>))
        => /\ last.ret = "True"
           /\ \A j \in Occurrences(Before, SEE_ALSO) :
                 /\ Config.examples = << >>
                       => OccursAt(After, EXAMPLES_HEAD \o EXAMPLES_TAIL \o TESTS_HEAD, BlockStart(j))
                 /\ Config.tests = << >>
                       => LET end == TESTS_HEAD \o RUN_HEAD \o Config.test_filter \o RUN_TAIL
                                         \o <<"\n">> \o SEE_ALSO
                          IN  OccursAt(After, end, BlockStart(j) + Grown + Len(SEE_ALSO) - Len(end))

C9_Witness ==
    /\ last.ret = "True"
    /\ Config.examples = << >>
    /\ Config.tests = << >>

\* C10: a batch run that has ended has called the injector once for each
\* entry of DOCS_CONFIG, in the table's order, and has reported as its count
\* the number of calls that returned True; a run after the first reports 0.
C10_CountAccurate ==
    (run >= 1 /\ pc \notin {"loop"})
        => /\ [ k \in 1..Len(results) |-> results[k].path ] = [ k \in 1..Len(docs_config) |-> k ]
           /\ out[Len(out)].msg = "Summary"
           /\ out[Len(out)].count = Cardinality({ k \in 1..Len(results) : results[k].ret = "True" })
           /\ run >= 2 => out[Len(out)].count = 0

\* what of C10 holds of the code: a run that reaches line 222 has called the
\* injector once per entry, in order, and reports the number of True returns,
\* which is 0 in a run after the first
MainCountOnCompletion ==
    pc = "done"
        => /\ [ k \in 1..Len(results) |-> results[k].path ] = [ k \in 1..Len(docs_config) |-> k ]
           /\ out[Len(out)] = [ msg |-> "Summary", path |-> 0,
                                count |-> Cardinality({ k \in 1..Len(results) : results[k].ret = "True" }) ]
           /\ run >= 2 => out[Len(out)].count = 0

====
